---- MODULE Spec2Model ----
(***************************************************************************)
(* Model of scripts/playback_datasets.py (dexmimicgen): the simulator      *)
(* state restorer reset_to, the per-episode replay drivers                 *)
(* playback_trajectory_with_env / playback_trajectory_with_obs and the run *)
(* driver playback_dataset.                                                *)
(*                                                                         *)
(* The simulator (robosuite / mujoco), the HDF5 reader and the video       *)
(* writer are external collaborators: the model records the calls made on  *)
(* them and keeps only the part of their state the script reads back.      *)
(***************************************************************************)
EXTENDS Integers, Sequences, FiniteSets, TLC

VARIABLES
    env,        \* the simulator handle (NoEnv before robosuite.make)
    calls,      \* simulator capabilities invoked by the latest reset_to, in order
    restored,   \* outcome of the latest reset_to: "none", "returned"
    req,        \* the request handed to the latest reset_to
    args,       \* the argparse namespace of the run
    pc,         \* position of playback_dataset
    raised,     \* the exception that ended the run ("none" while running)
    demos,      \* the list of episode ids to replay
    ind,        \* index into demos of the current episode (0-based)
    i,          \* step index of the per-episode loop
    traj_len,   \* states.shape[0] of the current episode
    success,    \* the success latch of the current episode
    video_count,\* video_count of the current episode
    log,        \* what the current episode printed and compared
    run,        \* run-wide record of resources and of what has been replayed
    images,     \* the per-camera images of one frame, in camera order
    frame       \* what concatenating them gave: the image or the error

vars == <<env, calls, restored, req, args, pc, raised, demos, ind, i, traj_len,
          success, video_count, log, run, images, frame>>

----------------------------------------------------------------------------
(* Bounds of the model *)

\* longest recorded episode
MaxLen == 3

\* largest value of a component of a flattened physics state
MaxCoord == 1

\* most cameras combined into one frame
MaxCameras == 3

\* largest height and width of a camera image, in pixels
MaxSide == 2

(* Program constants *)

\* states are extended by 50 copies of the last one (--extend_states)
ExtendBy == 50

\* robosuite minor versions up to 3 use postprocess_model_xml
LastLegacyMinor == 3

\* the episode number starts at character 5 of "demo_<n>" (0-based)
IdPrefixLen == 5

\* Python's None where the other values are strings
None == "None"

\* env = None, line 346
NoEnv == [none |-> TRUE]

\* args.n is None; a given n is <<n>>
NoCap == <<>>

----------------------------------------------------------------------------
(* The simulator handle, as far as reset_to uses it *)

Bool == {TRUE, FALSE}

\* a flattened physics state: a vector of two coordinates
Flat == {<<a, b>> : a \in 0..MaxCoord, b \in 0..MaxCoord}

\* the state mujoco holds after sim.reset()
ZeroState == <<0, 0>>

\* scene descriptions: the recorded ones (model_file attributes) and, as the
\* simulator holds them, the environment's own and the normalised recorded ones
Models == {"xml_a", "xml_b"}
BaseModel == [xml |-> "base_xml", form |-> "built"]

\* ep_meta attributes as stored (JSON text)
MetaBlobs == {"{}", "{\"lang\": \"stack\"}"}

\* json.loads of an ep_meta attribute: the key/value pairs of the object
json_loads(blob) ==
    IF blob = "{}" THEN {} ELSE {<<"lang", "stack">>}

\* attribute names probed with hasattr
MetaCaps == {"set_attrs_from_ep_meta", "set_ep_meta"}
RefreshCaps == {"update_sites", "update_state"}

hasattr(e, name) == name \in e.caps

\* one call on the handle: the call is recorded by the caller, this is its effect
set_ep_meta(e, ep_meta) == [e EXCEPT !.ep_meta = ep_meta]

env_reset(e) ==
    [e EXCEPT !.model = BaseModel, !.state = ZeroState, !.fwd = ZeroState]

postprocess_model_xml(xml) == [xml |-> xml, form |-> "postprocessed"]

edit_model_xml(xml) == [xml |-> xml, form |-> "edited"]

reset_from_xml_string(e, xml) == [e EXCEPT !.model = xml]

sim_reset(e) == [e EXCEPT !.state = ZeroState]

set_state_from_flattened(e, s) == [e EXCEPT !.state = s]

sim_forward(e) == [e EXCEPT !.fwd = e.state]

----------------------------------------------------------------------------
(* reset_to(env, state) *)

\* a call on the simulator handle, as recorded in the trace
Call(op, arg) == [op |-> op, arg |-> arg]

\* the progress of one reset_to: the handle and the calls made so far
Progress(e, cs) == [env |-> e, calls |-> cs]

\* state.get("ep_meta", None)
state_get_ep_meta(state) ==
    IF "ep_meta" \in DOMAIN state THEN state["ep_meta"] ELSE None

\* lines 275-283: parse the episode metadata and attach it with whichever
\* setter the handle has
ApplyEpMeta(r, state) ==
    LET ep_meta == IF state_get_ep_meta(state) # None
                   THEN json_loads(state_get_ep_meta(state))
                   ELSE {}
    IN  IF hasattr(r.env, "set_attrs_from_ep_meta")
        THEN Progress(set_ep_meta(r.env, ep_meta),
                      Append(r.calls, Call("set_attrs_from_ep_meta", ep_meta)))
        ELSE IF hasattr(r.env, "set_ep_meta")
        THEN Progress(set_ep_meta(r.env, ep_meta),
                      Append(r.calls, Call("set_ep_meta", ep_meta)))
        ELSE r

\* ReloadModel with the xml loaded before the hard reset
ReloadModelLoadFirst(r, state) ==
    LET old == r.env.robosuite_minor <= LastLegacyMinor
        xml == IF old THEN postprocess_model_xml(state["model"])
                      ELSE edit_model_xml(state["model"])
        r1  == Progress(reset_from_xml_string(r.env, xml),
                        Append(r.calls, Call("reset_from_xml_string", {xml})))
        r2  == Progress(env_reset(r1.env), Append(r1.calls, Call("reset", {})))
    IN  Progress(sim_reset(r2.env), Append(r2.calls, Call("sim.reset", {})))

\* lines 287-298: hard reset, normalise the xml, load it, reset the engine
ReloadModel(r, state) ==
    LET r1  == Progress(env_reset(r.env), Append(r.calls, Call("reset", {})))
        old == r.env.robosuite_minor <= LastLegacyMinor
        xml == IF old THEN postprocess_model_xml(state["model"])
                      ELSE edit_model_xml(state["model"])
        r2  == IF old THEN r1
               ELSE Progress(r1.env,
                             Append(r1.calls, Call("edit_model_xml", {state["model"]})))
        r3  == Progress(reset_from_xml_string(r2.env, xml),
                        Append(r2.calls, Call("reset_from_xml_string", {xml})))
    IN  Progress(sim_reset(r3.env), Append(r3.calls, Call("sim.reset", {})))

\* ModelBranch with the hard reset issued whether or not a model is given
ModelBranchAlwaysResets(r, state) ==
    IF "model" \in DOMAIN state
    THEN ReloadModel(ApplyEpMeta(r, state), state)
    ELSE Progress(env_reset(r.env), Append(r.calls, Call("reset", {})))

\* lines 274-298
ModelBranch(r, state) ==
    IF "model" \in DOMAIN state
    THEN ReloadModel(ApplyEpMeta(r, state), state)
    ELSE r

\* StatesBranch without the forward pass
StatesBranchNoForward(r, state) ==
    IF "states" \in DOMAIN state
    THEN Progress(set_state_from_flattened(r.env, state["states"]),
                  Append(r.calls,
                         Call("sim.set_state_from_flattened", {state["states"]})))
    ELSE r

\* lines 302-305
StatesBranch(r, state) ==
    IF "states" \in DOMAIN state
    THEN LET r1 == Progress(set_state_from_flattened(r.env, state["states"]),
                            Append(r.calls,
                                   Call("sim.set_state_from_flattened", {state["states"]})))
         IN  Progress(sim_forward(r1.env), Append(r1.calls, Call("sim.forward", {})))
    ELSE r

\* lines 308-313: two independent ifs
Refresh(r) ==
    LET r1 == IF hasattr(r.env, "update_sites")
              THEN Progress(r.env, Append(r.calls, Call("update_sites", {})))
              ELSE r
    IN  IF hasattr(r1.env, "update_state")
        THEN Progress(r1.env, Append(r1.calls, Call("update_state", {})))
        ELSE r1

\* lines 260-318: the handle after the call and the calls it made; the function
\* has no raise and no assert, it always returns None
reset_to(e, state) ==
    Refresh(StatesBranch(ModelBranch(Progress(e, <<>>), state), state))

----------------------------------------------------------------------------
(* The dataset file *)

\* episode ids are strings, kept as their characters
demo_2  == <<"d", "e", "m", "o", "_", "2">>
demo_10 == <<"d", "e", "m", "o", "_", "1", "0">>

\* f["data"].keys()
DataKeys == {demo_2, demo_10}

\* f["mask/<filter_key>"]: the named subsets of the file
FilterKeys == {"valid"}
Mask(filter_key) == {demo_10}

DigitValue(c) ==
    CASE c = "0" -> 0 [] c = "1" -> 1 [] c = "2" -> 2 [] c = "3" -> 3
      [] c = "4" -> 4 [] c = "5" -> 5 [] c = "6" -> 6 [] c = "7" -> 7
      [] c = "8" -> 8 [] c = "9" -> 9

\* int(s) of a string of decimal digits
RECURSIVE int(_)
int(s) ==
    IF Len(s) = 0 THEN 0
    ELSE 10 * int(SubSeq(s, 1, Len(s) - 1)) + DigitValue(s[Len(s)])

\* elem[5:]
Suffix(elem) == SubSeq(elem, IdPrefixLen + 1, Len(elem))

\* line 390: the sort key of an episode id
DemoKey(elem) == int(Suffix(elem))

\* f["data/<ep>/states"].shape[0], and the actions have the same length
EpLen(ep) == IF ep = demo_2 THEN MaxLen ELSE 1

\* f["data/<ep>/states"][k], k 0-based
RecState(ep, k) ==
    <<k % (MaxCoord + 1), DemoKey(ep) % (MaxCoord + 1)>>

\* f["data/<ep>"].attrs["model_file"]
ModelFile(ep) == IF ep = demo_2 THEN "xml_a" ELSE "xml_b"

\* f["data/<ep>"].attrs.get("ep_meta", None): demo_10 was recorded without one
EpMetaAttr(ep) == IF ep = demo_2 THEN "{\"lang\": \"stack\"}" ELSE None

----------------------------------------------------------------------------
(* Episode listing, lines 380-396 *)

Perms(S) ==
    {p \in [1..Cardinality(S) -> S] : \A x \in S : \E k \in DOMAIN p : p[k] = x}

Range(s) == {s[k] : k \in DOMAIN s}

\* np.argsort(keys): the index orders that put keys in non-decreasing order
ArgSort(keys) ==
    {p \in Perms(DOMAIN keys) :
        \A a, b \in DOMAIN p : a < b => keys[p[a]] <= keys[p[b]]}

\* SortedDemos with the list left in the order of the file
UnsortedDemos(stored) == {stored}

\* lines 390-391
SortedDemos(stored) ==
    {[k \in DOMAIN stored |-> stored[inds[k]]] :
        inds \in ArgSort([k \in DOMAIN stored |-> DemoKey(stored[k])])}

\* demos[:n]
FirstN(s, n) == SubSeq(s, 1, IF n < Len(s) THEN n ELSE Len(s))

\* lines 394-396: random.shuffle then the first n; without n the list is kept
Subsample(sorted, n) ==
    IF n # NoCap
    THEN {FirstN(p, n[1]) : p \in Perms(Range(sorted))}
    ELSE {sorted}

----------------------------------------------------------------------------
(* The run configuration (argparse namespace) *)

\* --render_image_names: one or more names (nargs="+", default ["agentview"])
CameraLists == {<<"agentview">>, <<"agentview", "robot0_eye_in_hand">>}

\* the string assigned on line 334, as its characters
DefaultCameraString ==
    <<"r", "o", "b", "o", "t", "0", "_", "a", "g", "e", "n", "t", "v", "i", "e",
      "w", "_", "c", "e", "n", "t", "e", "r">>

\* no --render_image_names at all (only a caller that bypasses argparse)
NoNames == <<>>

ArgSpace ==
    [render : Bool, video_path : {None, "out.mp4"}, use_obs : Bool,
     use_actions : Bool, first : Bool, extend_states : Bool, verbose : Bool,
     use_current_model : Bool, n : {NoCap, <<1>>, <<2>>},
     filter_key : {None} \cup FilterKeys, render_image_names : CameraLists,
     video_skip : {1, 2}]

\* line 323
write_video(a) == a.render # TRUE

\* lines 324-327 and 331-334: the defaults filled in
FillDefaults(a) ==
    [a EXCEPT
       !.video_path = IF a.video_path # None THEN a.video_path
                      ELSE IF a.use_actions THEN "dataset_use_actions.mp4"
                      ELSE "dataset.mp4",
       !.render_image_names = IF a.render_image_names = NoNames
                              THEN DefaultCameraString
                              ELSE a.render_image_names]

\* PreflightError without the assertion on use_actions
PreflightErrorNoActionsCheck(a) ==
    IF a.render /\ write_video(a) THEN "AssertionError"
    ELSE IF a.render /\ Len(FillDefaults(a).render_image_names) # 1
    THEN "AssertionError"
    ELSE IF a.use_obs /\ ~write_video(a) THEN "AssertionError"
    ELSE "none"

\* lines 328-344: the assertions, in the order they run
PreflightError(a) ==
    IF a.render /\ write_video(a) THEN "AssertionError"
    ELSE IF a.render /\ Len(FillDefaults(a).render_image_names) # 1
    THEN "AssertionError"
    ELSE IF a.use_obs /\ ~write_video(a) THEN "AssertionError"
    ELSE IF a.use_obs /\ a.use_actions THEN "AssertionError"
    ELSE "none"

----------------------------------------------------------------------------
(* Simulator creation and the calls of the replay loop *)

\* what robosuite.make returns in a run: an environment of the current API
\* generation (SpecRestore covers every combination of entry points)
EnvKinds ==
    {[caps |-> {"set_ep_meta", "update_state"}, robosuite_minor |-> 5]}

\* line 376: has_renderer is False, so there is no viewer yet
robosuite_make(kind) ==
    [caps |-> kind.caps, robosuite_minor |-> kind.robosuite_minor,
     model |-> BaseModel, ep_meta |-> {}, state |-> ZeroState, fwd |-> ZeroState,
     viewer |-> None]

\* env.step(action): the physics decides the next state
env_step(e, s) == [e EXCEPT !.state = s, !.fwd = s]

initialize_renderer(e) == [e EXCEPT !.viewer = "viewer"]

\* lines 172-173
close_viewer(e) == [e EXCEPT !.viewer = None]

\* states of an episode as playback_trajectory_with_env receives them
\* (1-based here), lines 418 and 425-426
EpStates(ep, extend_states) ==
    LET L == EpLen(ep)
        n == IF extend_states THEN L + ExtendBy ELSE L
    IN  [k \in 1..n |-> RecState(ep, IF k <= L THEN k - 1 ELSE L - 1)]

\* lines 419-423
InitialState(ep, e, a) ==
    [states  |-> EpStates(ep, FALSE)[1],
     model   |-> IF a.use_current_model THEN e.model.xml ELSE ModelFile(ep),
     ep_meta |-> EpMetaAttr(ep)]

\* np.all(np.equal(u, v))
AllEqual(u, v) == \A k \in DOMAIN u : u[k] = v[k]

\* np.linalg.norm(u - v), kept squared so that it stays an integer
NormSq(u, v) ==
    (u[1] - v[1]) * (u[1] - v[1]) + (u[2] - v[2]) * (u[2] - v[2])

EmptyLog ==
    [stepped |-> <<>>, checks |-> <<>>, errs |-> <<>>, warnings |-> <<>>,
     loads |-> <<>>, frames |-> <<>>, resets |-> <<>>,
     viewer_inits |-> 0, viewer_updates |-> 0, viewer_closes |-> 0,
     last_signal |-> FALSE, no_success_warning |-> FALSE]

EmptyRun ==
    [meta_reads |-> 0, env_made |-> 0, env_closed |-> 0, file_opened |-> 0,
     file_closed |-> 0, video_opened |-> 0, video_closed |-> 0,
     played |-> <<>>, restores |-> 0, steps |-> 0, frames |-> 0]

----------------------------------------------------------------------------
(* playback_dataset: one action per straight-line stretch of the run *)

\* no frame assembled yet
NoFrame == [raised |-> "none", img |-> <<>>]

Init ==
    /\ env = NoEnv
    /\ calls = <<>>
    /\ restored = "none"
    /\ req = <<>>
    /\ args \in ArgSpace
    /\ pc = "start"
    /\ raised = "none"
    /\ demos = <<>>
    /\ ind = 0
    /\ i = 0
    /\ traj_len = 0
    /\ success = FALSE
    /\ video_count = 0
    /\ log = EmptyLog
    /\ run = EmptyRun
    /\ images = <<>>
    /\ frame = NoFrame

\* lines 321-344
Preflight ==
    /\ pc = "start"
    /\ args' = FillDefaults(args)
    /\ run' = [run EXCEPT !.meta_reads =
                   IF args.render_image_names = NoNames THEN @ + 1 ELSE @]
    /\ raised' = PreflightError(args)
    /\ pc' = IF PreflightError(args) = "none" THEN "make_env" ELSE "raised"
    /\ UNCHANGED <<images, frame>>
    /\ UNCHANGED <<env, calls, restored, req, demos, ind, i, traj_len, success,
                   video_count, log>>

\* lines 346-376
MakeEnv ==
    /\ pc = "make_env"
    /\ IF ~args.use_obs
       THEN \E kind \in EnvKinds :
               /\ env' = robosuite_make(kind)
               /\ run' = [run EXCEPT !.meta_reads = @ + 1, !.env_made = @ + 1]
       ELSE UNCHANGED <<env, run>>
    /\ pc' = "open"
    /\ UNCHANGED <<images, frame>>
    /\ UNCHANGED <<calls, restored, req, args, raised, demos, ind, i, traj_len,
                   success, video_count, log>>

\* the ids in the order the file yields them, lines 381-388
StoredOrders(a) ==
    Perms(IF a.filter_key # None THEN Mask(a.filter_key) ELSE DataKeys)

\* lines 378-401
OpenDataset ==
    /\ pc = "open"
    /\ \E stored \in StoredOrders(args) :
         \E sorted \in SortedDemos(stored) :
           \E d \in Subsample(sorted, args.n) : demos' = d
    /\ run' = [run EXCEPT !.file_opened = @ + 1,
                          !.video_opened = IF write_video(args) THEN @ + 1 ELSE @]
    /\ ind' = 0
    /\ pc' = "loop"
    /\ UNCHANGED <<images, frame>>
    /\ UNCHANGED <<env, calls, restored, req, args, raised, i, traj_len, success,
                   video_count, log>>

\* what playback_trajectory_with_env raises before its loop, lines 89-108:
\* the assert on the output modes, json.loads(None) under --verbose, and
\* (after reset_to) the assert on the lengths
EntryError(ep, a) ==
    IF a.render /\ write_video(a) THEN "AssertionError"
    ELSE IF a.verbose /\ EpMetaAttr(ep) = None THEN "TypeError"
    ELSE "none"

\* the driver without the assert on the lengths
LengthErrorNever(ep, a) == "none"

\* lines 105-108: states.shape[0] against actions.shape[0]
LengthError(ep, a) ==
    IF a.use_actions /\ Len(EpStates(ep, a.extend_states)) # EpLen(ep)
    THEN "AssertionError"
    ELSE "none"

\* lines 404-444 up to the call, then lines 87-113
BeginEpisode ==
    /\ pc = "loop"
    /\ ind < Len(demos)
    /\ ~args.use_obs
    /\ LET ep == demos[ind + 1]
           initial_state == InitialState(ep, env, args)
           r == reset_to(env, initial_state)
       IN  IF EntryError(ep, args) # "none"
           THEN /\ raised' = EntryError(ep, args)
                /\ pc' = "raised"
                /\ UNCHANGED <<env, calls, restored, req, run, traj_len, log>>
           ELSE /\ env' = r.env
                /\ calls' = r.calls
                /\ restored' = "returned"
                /\ req' = initial_state
                /\ run' = [run EXCEPT !.restores = @ + 1]
                /\ log' = [EmptyLog EXCEPT !.resets = <<DOMAIN initial_state>>]
                /\ traj_len' = Len(EpStates(ep, args.extend_states))
                /\ raised' = LengthError(ep, args)
                /\ pc' = IF LengthError(ep, args) = "none" THEN "step" ELSE "raised"
    /\ i' = 0
    /\ success' = FALSE
    /\ video_count' = 0
    /\ UNCHANGED <<images, frame>>
    /\ UNCHANGED <<args, demos, ind>>

\* the comparison stopping one transition early
IsCheckedShort(step, len) == step < len - 2

\* line 121: the transition after step i is compared unless i is the last step
IsChecked(step, len) == step < len - 1

\* the report tied to the last step of the loop instead of the last comparison
IsReportedAtLastStep(step, len, verbose) == verbose \/ step = len - 1

\* line 126: which mismatches are printed
IsReported(step, len, verbose) == verbose \/ step = len - 2

\* CompareStates with the norm taken for every comparison, exact or not
CompareStatesAlwaysNorm(lg, states, actual, step, len, verbose) ==
    IF ~IsChecked(step, len) THEN lg
    ELSE LET expected == states[step + 2]
             exact == AllEqual(expected, actual)
             err == NormSq(expected, actual)
             lg2 == [lg EXCEPT
                       !.checks = Append(@, [step |-> step, against |-> step + 1,
                                             exact |-> exact]),
                       !.errs = Append(@, [step |-> step, err |-> err])]
         IN  IF ~exact /\ IsReported(step, len, verbose)
             THEN [lg2 EXCEPT !.warnings = Append(@, [step |-> step, err |-> err])]
             ELSE lg2

\* lines 121-134: the comparison after env.step(actions[step]); states is
\* 1-based, so states[step + 2] is the recorded states[step + 1]
CompareStates(lg, states, actual, step, len, verbose) ==
    IF ~IsChecked(step, len) THEN lg
    ELSE LET expected == states[step + 2]
             exact == AllEqual(expected, actual)
             err == NormSq(expected, actual)
             lg1 == [lg EXCEPT !.checks =
                        Append(@, [step |-> step, against |-> step + 1,
                                   exact |-> exact])]
         IN  IF exact THEN lg1
             ELSE LET lg2 == [lg1 EXCEPT !.errs =
                                 Append(@, [step |-> step, err |-> err])]
                  IN  IF IsReported(step, len, verbose)
                      THEN [lg2 EXCEPT !.warnings =
                               Append(@, [step |-> step, err |-> err])]
                      ELSE lg2

\* RenderOnScreen creating a viewer at every step
RenderOnScreenAlwaysInit(r) ==
    [r EXCEPT !.env = initialize_renderer(@),
              !.log.viewer_inits = @ + 1,
              !.log.viewer_updates = @ + 1]

\* lines 139-144: the viewer is created when absent, then updated
RenderOnScreen(r) ==
    LET absent == r.env.viewer = None
    IN  [r EXCEPT !.env = IF absent THEN initialize_renderer(@) ELSE @,
                  !.log.viewer_inits = IF absent THEN @ + 1 ELSE @,
                  !.log.viewer_updates = @ + 1]

\* the counter tested after its increment
IsSampledAfterIncrement(count, video_skip) == (count + 1) % video_skip = 0

\* lines 154 and 205: a frame is written when the counter is a multiple of the
\* sampling period
IsSampled(count, video_skip) == count % video_skip = 0

\* lines 154-164 and 205-209: one image per name, in order, concatenated
WriteFrame(lg, step, count, names, video_skip) ==
    IF IsSampled(count, video_skip)
    THEN [lg EXCEPT !.frames = Append(@, [step |-> step, cams |-> names])]
    ELSE lg

\* LoopEnds without the break on first
LoopEndsIgnoresFirst(step, len, first) == step + 1 >= len

\* lines 168-169 and 212-213 with the loop bound: whether iteration step is the last
LoopEnds(step, len, first) == first \/ step + 1 >= len

\* StepRaises with a mismatch treated as a failed assertion
StepRaisesOnMismatch(before, after) ==
    IF Len(after.errs) > Len(before.errs) THEN "AssertionError" ELSE "none"

\* lines 114-169: what one iteration raises given the log before and after
\* it: the mismatch branch (lines 124-134) only prints, and nothing else in
\* the loop body asserts or raises
StepRaises(before, after) == "none"

\* the per-step request carrying the model as well
StepRequestWithModel(states, step) ==
    [states |-> states[step + 1], model |-> ModelFile(demo_2)]

\* line 136: the request of step i holds states[i] and nothing else
StepRequest(states, step) == [states |-> states[step + 1]]

\* the latch overwritten by the latest signal
LatchLatest(latched, signal) == signal

\* lines 119-120: success is set on a true signal and never cleared
Latch(latched, signal) == latched \/ signal

\* lines 175-176: whether "playback did not success" is printed
NoSuccessWarning(action_playback, latched) == action_playback /\ ~latched

\* what env.step can produce: any flattened state and any success signal
StepOutcomes(a) ==
    IF a.use_actions THEN Flat \X Bool ELSE {<<ZeroState, FALSE>>}

\* lines 114-169: one iteration of the loop of playback_trajectory_with_env
Step ==
    /\ pc = "step"
    /\ \E out \in StepOutcomes(args) :
         LET ep == demos[ind + 1]
             states == EpStates(ep, args.extend_states)
             r == reset_to(env, StepRequest(states, i))
             \* lines 117-136
             moved ==
                 IF args.use_actions
                 THEN [env |-> env_step(env, out[1]),
                       log |-> CompareStates(
                                   [log EXCEPT !.stepped = Append(@, i),
                                               !.last_signal = out[2]],
                                   states, out[1], i, traj_len, args.verbose)]
                 ELSE [env |-> r.env,
                       log |-> [log EXCEPT !.loads = Append(@, i),
                                           !.resets = Append(@,
                                               DOMAIN StepRequest(states, i))]]
             \* lines 139-150
             shown == IF args.render THEN RenderOnScreen(moved) ELSE moved
             \* lines 153-166
             lg == IF write_video(args)
                   THEN WriteFrame(shown.log, i, video_count,
                                   args.render_image_names, args.video_skip)
                   ELSE shown.log
         IN  /\ env' = shown.env
             /\ log' = lg
             /\ success' = IF args.use_actions THEN Latch(success, out[2])
                           ELSE success
             /\ calls' = IF args.use_actions THEN calls ELSE r.calls
             /\ req' = IF args.use_actions THEN req ELSE StepRequest(states, i)
             /\ run' = [run EXCEPT
                          !.steps = IF args.use_actions THEN @ + 1 ELSE @,
                          !.restores = IF args.use_actions THEN @ ELSE @ + 1,
                          !.frames = @ + Len(lg.frames) - Len(log.frames)]
             /\ raised' = StepRaises(log, lg)
             /\ pc' = IF StepRaises(log, lg) # "none" THEN "raised"
                      ELSE IF LoopEnds(i, traj_len, args.first) THEN "end_episode"
                      ELSE "step"
    /\ video_count' = IF write_video(args) THEN video_count + 1 ELSE video_count
    /\ i' = IF LoopEnds(i, traj_len, args.first) THEN i ELSE i + 1
    /\ UNCHANGED <<images, frame>>
    /\ UNCHANGED <<restored, args, demos, ind, traj_len>>

\* lines 171-176, and the return to the loop of playback_dataset
EndEpisode ==
    /\ pc = "end_episode"
    /\ env' = IF args.render THEN close_viewer(env) ELSE env
    /\ log' = [log EXCEPT
                 !.viewer_closes = IF args.render THEN @ + 1 ELSE @,
                 !.no_success_warning = NoSuccessWarning(args.use_actions, success)]
    /\ run' = [run EXCEPT !.played = Append(@, [ep |-> demos[ind + 1],
                                                steps |-> i + 1])]
    /\ ind' = ind + 1
    /\ pc' = "loop"
    /\ UNCHANGED <<images, frame>>
    /\ UNCHANGED <<calls, restored, req, args, raised, demos, i, traj_len,
                   success, video_count>>

\* lines 407-414 and 198-203
BeginObsEpisode ==
    /\ pc = "loop"
    /\ ind < Len(demos)
    /\ args.use_obs
    /\ traj_len' = EpLen(demos[ind + 1])
    /\ i' = 0
    /\ video_count' = 0
    /\ success' = FALSE
    /\ log' = EmptyLog
    /\ pc' = "obs_step"
    /\ UNCHANGED <<images, frame>>
    /\ UNCHANGED <<env, calls, restored, req, args, raised, demos, ind, run>>

\* lines 204-213 and the continue on line 415
ObsStep ==
    /\ pc = "obs_step"
    /\ log' = WriteFrame(log, i, video_count, args.render_image_names,
                         args.video_skip)
    /\ video_count' = video_count + 1
    /\ IF LoopEnds(i, traj_len, args.first)
       THEN /\ pc' = "loop"
            /\ i' = i
            /\ ind' = ind + 1
            /\ run' = [run EXCEPT
                         !.frames = @ + Len(log'.frames) - Len(log.frames),
                         !.played = Append(@, [ep |-> demos[ind + 1],
                                               steps |-> i + 1])]
       ELSE /\ pc' = "obs_step"
            /\ i' = i + 1
            /\ ind' = ind
            /\ run' = [run EXCEPT
                         !.frames = @ + Len(log'.frames) - Len(log.frames)]
    /\ UNCHANGED <<images, frame>>
    /\ UNCHANGED <<env, calls, restored, req, args, raised, demos, traj_len,
                   success>>

\* lines 446-452
Finish ==
    /\ pc = "loop"
    /\ ind >= Len(demos)
    /\ run' = [run EXCEPT
                 !.file_closed = @ + 1,
                 !.video_closed = IF write_video(args) THEN @ + 1 ELSE @,
                 !.env_closed = IF env # NoEnv THEN @ + 1 ELSE @]
    /\ pc' = "done"
    /\ UNCHANGED <<images, frame>>
    /\ UNCHANGED <<env, calls, restored, req, args, raised, demos, ind, i,
                   traj_len, success, video_count, log>>

Next ==
    \/ Preflight
    \/ MakeEnv
    \/ OpenDataset
    \/ BeginEpisode
    \/ Step
    \/ EndEpisode
    \/ BeginObsEpisode
    \/ ObsStep
    \/ Finish

Spec == Init /\ [][Next]_vars

----------------------------------------------------------------------------
(* reset_to on its own: any handle, any request *)

\* argparse's defaults, lines 456-551
DefaultArgs ==
    [render |-> FALSE, video_path |-> None, use_obs |-> FALSE,
     use_actions |-> FALSE, first |-> FALSE, extend_states |-> FALSE,
     verbose |-> FALSE, use_current_model |-> FALSE, n |-> NoCap,
     filter_key |-> None, render_image_names |-> <<"agentview">>,
     video_skip |-> 5]

\* every combination of the optional entry points, in both version ranges
AllEnvKinds ==
    [caps : SUBSET (MetaCaps \cup RefreshCaps), robosuite_minor : {3, 5}]

\* the dict handed to reset_to: any subset of the three keys
Requests ==
    {[k \in D |-> CASE k = "model" -> m [] k = "states" -> s [] k = "ep_meta" -> p] :
        D \in SUBSET {"model", "states", "ep_meta"},
        m \in Models, s \in {<<0, 1>>, <<1, 1>>}, p \in {None} \cup MetaBlobs}

InitRestore ==
    /\ env \in {robosuite_make(kind) : kind \in AllEnvKinds}
    /\ calls = <<>>
    /\ restored = "none"
    /\ req = <<>>
    /\ args = DefaultArgs
    /\ pc = "restore"
    /\ raised = "none"
    /\ demos = <<>>
    /\ ind = 0
    /\ i = 0
    /\ traj_len = 0
    /\ success = FALSE
    /\ video_count = 0
    /\ log = EmptyLog
    /\ run = EmptyRun
    /\ images = <<>>
    /\ frame = NoFrame

\* one call reset_to(env, state), lines 260-318
Restore ==
    /\ pc = "restore"
    /\ \E state \in Requests :
         /\ env' = reset_to(env, state).env
         /\ calls' = reset_to(env, state).calls
         /\ req' = state
    /\ restored' = "returned"
    /\ UNCHANGED <<images, frame>>
    /\ UNCHANGED <<args, pc, raised, demos, ind, i, traj_len, success,
                   video_count, log, run>>

NextRestore == Restore

SpecRestore == InitRestore /\ [][NextRestore]_vars

----------------------------------------------------------------------------
(* the assembly of one video frame on its own: any list of camera images *)

\* an h x w image of camera k as rows of pixels; every pixel carries where it
\* came from
Image(k, h, w) == [r \in 1..h |-> [c \in 1..w |-> <<k, r, c>>]]

Height(im) == Len(im)

Width(im) == Len(im[1])

\* row r of every image, joined left to right
RECURSIVE JoinRows(_, _)
JoinRows(arrs, r) ==
    IF arrs = <<>> THEN <<>> ELSE Head(arrs)[r] \o JoinRows(Tail(arrs), r)

\* the rows of every image, one image below the other
RECURSIVE StackRows(_)
StackRows(arrs) ==
    IF arrs = <<>> THEN <<>> ELSE Head(arrs) \o StackRows(Tail(arrs))

\* np.concatenate(arrs, axis): the arrays must agree on the other axis
np_concatenate(arrs, axis) ==
    IF arrs = <<>> THEN [raised |-> "ValueError", img |-> <<>>]
    ELSE IF axis = 1
    THEN IF \E k \in DOMAIN arrs : Height(arrs[k]) # Height(arrs[1])
         THEN [raised |-> "ValueError", img |-> <<>>]
         ELSE [raised |-> "none",
               img |-> [r \in 1..Height(arrs[1]) |-> JoinRows(arrs, r)]]
    ELSE IF \E k \in DOMAIN arrs : Width(arrs[k]) # Width(arrs[1])
         THEN [raised |-> "ValueError", img |-> <<>>]
         ELSE [raised |-> "none", img |-> StackRows(arrs)]

\* the images joined along axis 0
ConcatenateRows(video_img) == np_concatenate(video_img, 0)

\* lines 161-163 and 207-208: np.concatenate(video_img, axis=1)
ConcatenateColumns(video_img) == np_concatenate(video_img, 1)

\* the lists video_img can hold: one image per camera, of any size
ImageLists ==
    UNION {[1..n -> {Image(0, h, w) : h \in 1..MaxSide, w \in 1..MaxSide}] :
             n \in 1..MaxCameras}

\* image k of the list is the image of camera k
Tagged(l) == [k \in DOMAIN l |-> Image(k, Height(l[k]), Width(l[k]))]

InitCombine ==
    /\ env = NoEnv
    /\ calls = <<>>
    /\ restored = "none"
    /\ req = <<>>
    /\ args = DefaultArgs
    /\ pc = "combine"
    /\ raised = "none"
    /\ demos = <<>>
    /\ ind = 0
    /\ i = 0
    /\ traj_len = 0
    /\ success = FALSE
    /\ video_count = 0
    /\ log = EmptyLog
    /\ run = EmptyRun
    /\ images \in {Tagged(l) : l \in ImageLists}
    /\ frame = NoFrame

\* lines 161-163 (and 207-208): the frame handed to append_data
Combine ==
    /\ pc = "combine"
    /\ frame' = ConcatenateColumns(images)
    /\ raised' = ConcatenateColumns(images).raised
    /\ pc' = "combined"
    /\ UNCHANGED <<env, calls, restored, req, args, demos, ind, i, traj_len,
                   success, video_count, log, run, images>>

NextCombine == Combine

SpecCombine == InitCombine /\ [][NextCombine]_vars

----------------------------------------------------------------------------
(* Properties of reset_to, checked under SpecRestore *)

\* positions in the latest reset_to's trace of the calls named in ops
Positions(ops) == {k \in DOMAIN calls : calls[k].op \in ops}

\* every call named in before comes earlier than every call named in after
Precedes(before, after) ==
    \A a \in Positions(before), b \in Positions(after) : a < b

HasModel(state) == "model" \in DOMAIN state
HasStates(state) == "states" \in DOMAIN state

\* C1: reset_to with a request holding neither "model" nor "states" fails
\* with an error before any simulator capability is invoked; it never returns
\* normally.
C1_EmptyRequestRejected ==
    (restored # "none" /\ ~HasModel(req) /\ ~HasStates(req))
        => (restored = "error" /\ calls = <<>>)

\* C2: when the request holds "model", the metadata setter (if the handle has
\* one) is called once, with the parsed ep_meta or the empty map, before the
\* one env.reset(), which comes before the one reset_from_xml_string, which
\* comes before the one sim.reset(); set_state_from_flattened and then
\* sim.forward come after all of these, and only when the request holds
\* "states".
C2_ModelBranchOrder ==
    (restored = "returned" /\ HasModel(req)) =>
        /\ Cardinality(Positions(MetaCaps)) =
               (IF env.caps \cap MetaCaps # {} THEN 1 ELSE 0)
        /\ \A k \in Positions(MetaCaps) :
               calls[k].arg = (IF state_get_ep_meta(req) = None THEN {}
                               ELSE json_loads(state_get_ep_meta(req)))
        /\ Cardinality(Positions({"reset"})) = 1
        /\ Cardinality(Positions({"reset_from_xml_string"})) = 1
        /\ Cardinality(Positions({"sim.reset"})) = 1
        /\ Precedes(MetaCaps, {"reset"})
        /\ Precedes({"reset"}, {"reset_from_xml_string"})
        /\ Precedes({"reset_from_xml_string"}, {"sim.reset"})
        /\ Precedes({"sim.reset"}, {"sim.set_state_from_flattened"})
        /\ Precedes({"sim.set_state_from_flattened"}, {"sim.forward"})
        /\ Cardinality(Positions({"sim.set_state_from_flattened"})) =
               (IF HasStates(req) THEN 1 ELSE 0)
        /\ Cardinality(Positions({"sim.forward"})) =
               (IF HasStates(req) THEN 1 ELSE 0)

\* a request with a model, a state and no ep_meta, on a handle with set_ep_meta
C2_Witness ==
    /\ restored = "returned"
    /\ DOMAIN req = {"model", "states"}
    /\ "set_ep_meta" \in env.caps
    /\ "set_attrs_from_ep_meta" \notin env.caps
    /\ calls[1] = Call("set_ep_meta", {})
    /\ env.state = req["states"]

\* C3: at the end of reset_to at most one of update_sites / update_state is
\* called: exactly one when the handle has at least one of them, none when it
\* has neither.
C3_AtMostOneRefresh ==
    restored = "returned" =>
        Cardinality(Positions(RefreshCaps)) =
            (IF env.caps \cap RefreshCaps # {} THEN 1 ELSE 0)

\* C4: a reset_to whose request holds "states" and no "model" leaves the
\* loaded model and the attached metadata as they were; it calls nothing but
\* set_state_from_flattened, sim.forward and the refresh entry points, and
\* changes only the physics state.
C4_StatesOnlyFrame ==
    [][(HasStates(req') /\ ~HasModel(req')) =>
          /\ env'.model = env.model
          /\ env'.ep_meta = env.ep_meta
          /\ env' = [env EXCEPT !.state = req'["states"], !.fwd = req'["states"]]
          /\ \A k \in DOMAIN calls' :
                calls'[k].op \in {"sim.set_state_from_flattened", "sim.forward"}
                                    \cup RefreshCaps
          /\ calls'[1].op = "sim.set_state_from_flattened"
          /\ calls'[2].op = "sim.forward"]_vars

\* a states-only request applied on top of a loaded model with metadata
C4_Witness ==
    /\ restored = "returned"
    /\ DOMAIN req = {"states"}
    /\ env.model.xml = "xml_a"
    /\ env.ep_meta # {}
    /\ env.state = req["states"]
    /\ env.state # ZeroState

----------------------------------------------------------------------------
(* Properties of the run, checked under Spec *)

\* the run has not got past its argument checks
InPreflight == pc \in {"start", "raised"} /\ run.env_made = 0 /\ run.file_opened = 0

NothingReplayed ==
    /\ run.played = <<>>
    /\ run.restores = 0
    /\ run.steps = 0
    /\ run.frames = 0
    /\ demos = <<>>

\* C5: a run given both --render and a --video_path is rejected as a
\* configuration error before any episode is processed: once past its start it
\* is in the raised state, with no restoration, step or frame.
C5_BothOutputsRejected ==
    (args.render /\ args.video_path = "out.mp4" /\ pc # "start")
        => (pc = "raised" /\ raised = "AssertionError" /\ NothingReplayed)

\* the three configuration errors of C6
ObsWithActions(a) == a.use_obs /\ a.use_actions
ObsOnScreen(a) == a.use_obs /\ a.render
ScreenManyCameras(a) == a.render /\ Len(a.render_image_names) > 1

\* C6: observation replay with action replay, observation replay with
\* on-screen output, and on-screen output with more than one camera name are
\* each rejected with an assertion error before the simulator is created, the
\* dataset opened or an episode processed; a run that got past the argument
\* checks has none of the three.
C6_PreflightRejects ==
    /\ (ObsWithActions(args) \/ ObsOnScreen(args) \/ ScreenManyCameras(args))
          => /\ InPreflight
             /\ NothingReplayed
             /\ env = NoEnv
             /\ pc = "raised" => raised = "AssertionError"
    /\ pc \notin {"start", "raised"}
          => ~(ObsWithActions(args) \/ ObsOnScreen(args) \/ ScreenManyCameras(args))

\* observation replay with action replay, to a video file, is rejected
C6_Witness ==
    /\ pc = "raised"
    /\ raised = "AssertionError"
    /\ ObsWithActions(args)
    /\ ~args.render
    /\ InPreflight

\* the ids of a list of replayed episodes
PlayedIds == [k \in DOMAIN run.played |-> run.played[k].ep]

StrictlyAscending(ids) ==
    \A a, b \in DOMAIN ids : a < b => DemoKey(ids[a]) < DemoKey(ids[b])

\* the episodes the run is asked for: the named subset, or all of them
Selected(a) == IF a.filter_key # None THEN Mask(a.filter_key) ELSE DataKeys

Listed == pc \notin {"start", "make_env", "open"} /\ run.file_opened = 1

\* C7: for every configuration, with or without a cap n, the episodes are
\* replayed in strictly ascending order of their numeric suffix, and at the end
\* of a run with a filter key the replayed set is the named subset.
C7_AlwaysAscending ==
    /\ StrictlyAscending(PlayedIds)
    /\ Listed => StrictlyAscending(demos)
    /\ (pc = "done" /\ args.filter_key # None)
          => Range(PlayedIds) = Mask(args.filter_key)

\* C7 as amended: without a cap the list is the selected set in strictly
\* ascending numeric order; with a cap n it is min(n, size) distinct episodes
\* of the selected set in any order; the episodes are replayed in list order.
C7_AscendingWithoutCap ==
    /\ Listed =>
          /\ args.n = NoCap =>
                (StrictlyAscending(demos) /\ Range(demos) = Selected(args))
          /\ args.n # NoCap =>
                /\ Range(demos) \subseteq Selected(args)
                /\ Len(demos) = (IF args.n[1] < Cardinality(Selected(args))
                                 THEN args.n[1] ELSE Cardinality(Selected(args)))
                /\ Cardinality(Range(demos)) = Len(demos)
    /\ Len(run.played) <= Len(demos)
    /\ \A k \in DOMAIN run.played : run.played[k].ep = demos[k]
    /\ pc = "done" => Len(run.played) = Len(demos)

\* a whole file replayed without a cap: demo_2 comes before demo_10
C7_Witness ==
    /\ pc = "done"
    /\ args.n = NoCap
    /\ args.filter_key = None
    /\ PlayedIds = <<demo_2, demo_10>>

\* the per-episode loop has been left and the episode's log is complete
EpisodeOver ==
    \/ pc = "end_episode"
    \/ pc \in {"loop", "done"} /\ run.played # <<>>

\* C8: with --first every episode processes exactly one step, step 0, in
\* state-injection, action-replay and observation replay alike: one state load
\* or one action step, and at most one frame.
C8_FirstFrameOnly ==
    args.first =>
        /\ i = 0
        /\ \A k \in DOMAIN run.played : run.played[k].steps = 1
        /\ Len(log.stepped) + Len(log.loads) <= 1
        /\ Len(log.frames) <= 1
        /\ \A k \in DOMAIN log.frames : log.frames[k].step = 0
        /\ (EpisodeOver /\ ~args.use_obs) =>
              /\ log.stepped = (IF args.use_actions THEN <<0>> ELSE <<>>)
              /\ log.loads = (IF args.use_actions THEN <<>> ELSE <<0>>)
              /\ Len(log.frames) = (IF write_video(args) THEN 1 ELSE 0)
        /\ (EpisodeOver /\ args.use_obs) => Len(log.frames) = 1

\* the longest episode, action replay, truncated after its first action
C8_Witness ==
    /\ args.first
    /\ args.use_actions
    /\ pc = "end_episode"
    /\ traj_len = MaxLen
    /\ traj_len > 1
    /\ log.stepped = <<0>>
    /\ run.steps = Len(run.played) + 1

\* the actions of an episode of length len, in order
AllActions(len) == [k \in 1..len |-> k - 1]

\* C9: in action replay without --first a state mismatch never ends the
\* replay: no iteration of the loop raises, every episode that is replayed
\* steps all its actions 0..L-1 in order whatever the comparisons gave, and a
\* run that ends normally has replayed every listed episode.
C9_DivergenceNeverAborts ==
    /\ []((args.use_actions /\ ~args.first) =>
            /\ pc = "end_episode" =>
                  log.stepped = AllActions(EpLen(demos[ind + 1]))
            /\ \A k \in DOMAIN run.played :
                  run.played[k].steps = EpLen(run.played[k].ep)
            /\ pc = "done" => PlayedIds = demos)
    /\ [][(pc = "step" /\ args.use_actions /\ ~args.first) =>
            /\ pc' \in {"step", "end_episode"}
            /\ raised' = "none"
            /\ log'.stepped = Append(log.stepped, i)]_vars

\* an episode whose every comparison failed has finished, with more to replay
C9_Witness ==
    /\ args.use_actions
    /\ ~args.first
    /\ pc = "loop"
    /\ 0 < ind
    /\ ind < Len(demos)
    /\ Len(log.checks) = MaxLen - 1
    /\ Len(log.errs) = Len(log.checks)
    /\ log.stepped = AllActions(MaxLen)

\* the steps of a list of log entries
StepsOf(entries) == [k \in DOMAIN entries |-> entries[k].step]

Inexact(c) == ~c.exact

C11_WarningIffNeverSucceeded ==
    /\ [](/\ log.no_success_warning => (args.use_actions /\ ~success)
          /\ (EpisodeOver /\ pc # "end_episode" /\ ~args.use_obs) =>
                log.no_success_warning = (args.use_actions /\ ~success)
          /\ (pc = "step" /\ i = 0) => ~success
          /\ ~args.use_actions => ~success)
    /\ [][/\ (pc = "step" /\ args.use_actions) =>
                success' = (success \/ log'.last_signal)
          /\ pc = "end_episode" =>
                (pc' = "loop" /\ raised' = raised /\ ind' = ind + 1)]_vars

\* a true signal at an earlier step, a false one at the last: no warning
C11_Witness ==
    /\ args.use_actions
    /\ pc = "loop"
    /\ run.played # <<>>
    /\ traj_len = MaxLen
    /\ Len(log.stepped) = MaxLen
    /\ success
    /\ ~log.last_signal
    /\ ~log.no_success_warning

\* C12: whenever the run has ended, normally or with an error, the video
\* writer and the simulator are closed if they were opened, and neither was
\* opened more than once.
C12_ResourcesReleasedOnEveryExit ==
    /\ run.env_made <= 1
    /\ run.video_opened <= 1
    /\ pc \in {"done", "raised"} =>
          /\ run.video_closed = run.video_opened
          /\ run.env_closed = run.env_made

\* columns taken by the images before image k
RECURSIVE Offset(_, _)
Offset(arrs, k) == IF k = 1 THEN 0 ELSE Offset(arrs, k - 1) + Width(arrs[k - 1])

SameHeights(arrs) == \A k \in DOMAIN arrs : Height(arrs[k]) = Height(arrs[1])

\* C13: the frame is the camera images side by side in list order: it has
\* their common height, the sum of their widths, and pixel (r, c) of image k
\* sits at row r, column c shifted by the widths of the images before k;
\* images of different heights give an error and no frame.
C13_SideBySideInOrder ==
    pc = "combined" =>
        IF SameHeights(images)
        THEN /\ frame.raised = "none"
             /\ Height(frame.img) = Height(images[1])
             /\ \A r \in DOMAIN frame.img :
                   Len(frame.img[r]) = Offset(images, Len(images) + 1)
             /\ \A k \in DOMAIN images :
                   \A r \in 1..Height(images[k]) :
                     \A c \in 1..Width(images[k]) :
                       frame.img[r][Offset(images, k) + c] = images[k][r][c]
        ELSE /\ frame.raised = "ValueError"
             /\ raised = "ValueError"
             /\ frame.img = <<>>

\* two cameras of the same size, MaxSide wide: the second camera's first
\* column comes right after the first camera's last
C13_Witness ==
    /\ pc = "combined"
    /\ Len(images) = 2
    /\ \A k \in 1..2 : Height(images[k]) = MaxSide /\ Width(images[k]) = MaxSide
    /\ frame.raised = "none"
    /\ frame.img[1][MaxSide] = <<1, 1, MaxSide>>
    /\ frame.img[1][MaxSide + 1] = <<2, 1, 1>>

\* the steps of the current episode that have a recorded successor state
HasSuccessor(step) == step < traj_len - 1

\* C14: in action replay every executed step i is followed by a comparison
\* exactly when i < L - 1; the comparison sets the simulator state after
\* action i against the recorded states[i + 1], which is always in range; a
\* full episode makes L - 1 comparisons, and state injection makes none.
C14_ComparesEachTransitionOnce ==
    /\ [](/\ ~args.use_actions => log.checks = <<>>
          /\ (args.use_actions /\ pc \in {"step", "end_episode"}) =>
                /\ StepsOf(log.checks) = SelectSeq(log.stepped, HasSuccessor)
                /\ \A k \in DOMAIN log.checks :
                      /\ log.checks[k].against = log.checks[k].step + 1
                      /\ log.checks[k].against \in 1..(traj_len - 1)
          /\ (args.use_actions /\ pc = "end_episode" /\ ~args.first) =>
                /\ log.stepped = AllActions(traj_len)
                /\ Len(log.checks) = traj_len - 1)
    /\ [][(pc = "step" /\ args.use_actions) =>
            IF HasSuccessor(i)
            THEN /\ Len(log'.checks) = Len(log.checks) + 1
                 /\ log'.checks[Len(log'.checks)].step = i
                 /\ log'.checks[Len(log'.checks)].exact =
                       AllEqual(EpStates(demos[ind + 1], args.extend_states)[i + 2],
                                env'.state)
            ELSE log'.checks = log.checks]_vars

\* a full episode of MaxLen steps: MaxLen - 1 comparisons, one of them unequal
C14_Witness ==
    /\ args.use_actions
    /\ ~args.first
    /\ pc = "end_episode"
    /\ traj_len = MaxLen
    /\ Len(log.stepped) = MaxLen
    /\ Len(log.checks) = MaxLen - 1
    /\ \E k \in DOMAIN log.checks : ~log.checks[k].exact
    /\ \E k \in DOMAIN log.checks : log.checks[k].exact

WarnedAt(step) == \E w \in DOMAIN log.warnings : log.warnings[w].step = step

\* C15: a divergence warning is printed for a comparison exactly when the
\* states differ and either --verbose is set or the step is the last compared
\* one, i = L - 2; equal states never warn, and there is at most one warning
\* per step.
C15_WarningIffMismatchAndReported ==
    /\ ~args.use_actions => log.warnings = <<>>
    /\ (args.use_actions /\ pc \in {"step", "end_episode"}) =>
          /\ \A k \in DOMAIN log.checks :
                WarnedAt(log.checks[k].step) <=>
                    /\ ~log.checks[k].exact
                    /\ args.verbose \/ log.checks[k].step = traj_len - 2
          /\ \A w \in DOMAIN log.warnings :
                \E k \in DOMAIN log.checks :
                    log.checks[k].step = log.warnings[w].step
          /\ \A v, w \in DOMAIN log.warnings :
                v < w => log.warnings[v].step < log.warnings[w].step

\* without --verbose, every transition of a MaxLen episode diverged and only
\* the last one was reported
C15_Witness ==
    /\ args.use_actions
    /\ ~args.verbose
    /\ pc = "end_episode"
    /\ traj_len = MaxLen
    /\ Len(log.checks) = MaxLen - 1
    /\ \A k \in DOMAIN log.checks : ~log.checks[k].exact
    /\ StepsOf(log.warnings) = <<MaxLen - 2>>

ModelOps ==
    {"set_attrs_from_ep_meta", "set_ep_meta", "reset", "edit_model_xml",
     "reset_from_xml_string", "sim.reset"}

StateInjection == ~args.use_actions /\ ~args.use_obs

\* C16: state injection calls reset_to once when the episode starts, with the
\* model, the metadata and states[0], and once per processed step i with
\* states[i] alone: a full episode over L recorded states makes L + 1 calls,
\* and only the first one loads the model and applies the metadata.
C16_OneRestorePerStepPlusOne ==
    (StateInjection /\ pc \in {"step", "end_episode"}) =>
        LET states == EpStates(demos[ind + 1], args.extend_states)
            n == Len(log.loads)
        IN  /\ log.loads = AllActions(n)
            /\ log.resets = <<{"states", "model", "ep_meta"}>> \o
                                 [k \in 1..n |-> {"states"}]
            /\ pc = "step" => n = i
            /\ (pc = "end_episode" /\ ~args.first) =>
                  /\ Len(log.resets) = traj_len + 1
                  /\ traj_len = Len(states)
                  /\ ~args.extend_states => traj_len = EpLen(demos[ind + 1])
            /\ n = 0 =>
                  /\ req = InitialState(demos[ind + 1], env, args)
                  /\ req.states = states[1]
                  /\ Cardinality(Positions({"reset_from_xml_string"})) = 1
            /\ n > 0 =>
                  /\ req = [states |-> states[n]]
                  /\ Positions(ModelOps) = {}
                  /\ Cardinality(Positions({"sim.set_state_from_flattened"})) = 1

\* a full episode of MaxLen recorded states: MaxLen + 1 calls of reset_to
C16_Witness ==
    /\ StateInjection
    /\ ~args.first
    /\ ~args.extend_states
    /\ pc = "end_episode"
    /\ traj_len = MaxLen
    /\ Len(log.resets) = MaxLen + 1
    /\ Len(log.loads) = MaxLen

InEpisode == pc \in {"step", "obs_step", "end_episode"}

\* the steps of the current episode processed so far
Processed == IF pc \in {"step", "obs_step"} THEN i ELSE i + 1

OnPeriod(step) == step % args.video_skip = 0

\* C17: when frames go to a video file, with sampling period k, step i of an
\* episode writes a frame exactly when i mod k = 0, counting from 0 in every
\* episode; a full episode of L steps writes ceil(L / k) frames; a frame
\* holds one image per configured camera, in the configured order, and is
\* taken after the step's state load or action.
C17_EveryKthStepWritesAFrame ==
    /\ (pc \notin {"start", "restore", "combine", "combined"}
            /\ ~write_video(args)) => log.frames = <<>>
    /\ (InEpisode /\ write_video(args)) =>
          /\ video_count = Processed
          /\ StepsOf(log.frames) = SelectSeq(AllActions(Processed), OnPeriod)
          /\ \A k \in DOMAIN log.frames :
                /\ log.frames[k].cams = args.render_image_names
                /\ ~args.use_obs =>
                      \E m \in DOMAIN log.stepped \cup DOMAIN log.loads :
                          log.frames[k].step =
                              IF args.use_actions THEN log.stepped[m]
                              ELSE log.loads[m]
    /\ (EpisodeOver /\ write_video(args) /\ ~args.first) =>
          Len(log.frames) = (traj_len + args.video_skip - 1) \div args.video_skip

\* period 2, two cameras, a MaxLen episode replayed after another one: frames
\* at steps 0 and 2
C17_Witness ==
    /\ write_video(args)
    /\ args.video_skip = 2
    /\ Len(args.render_image_names) = 2
    /\ ~args.first
    /\ pc = "end_episode"
    /\ run.played # <<>>
    /\ traj_len = MaxLen
    /\ StepsOf(log.frames) = <<0, 2>>

HasMeta(state) == "ep_meta" \in DOMAIN state

\* what the setter receives for the request's ep_meta
ParsedMeta(state) ==
    IF state_get_ep_meta(state) # None THEN json_loads(state_get_ep_meta(state))
    ELSE {}

\* the request applied once more to the handle it produced changes nothing
SameRequestAgain == reset_to(env, req).env = env

ModelFromRequest ==
    HasModel(req) =>
        /\ env.model.xml = req.model
        /\ env.model.form = IF env.robosuite_minor <= LastLegacyMinor
                             THEN "postprocessed" ELSE "edited"
        /\ ~HasStates(req) => (env.state = ZeroState /\ env.fwd = ZeroState)

StatesFromRequest ==
    HasStates(req) => (env.state = req.states /\ env.fwd = req.states)

\* C18: reset_to is idempotent for an identical request, and after it returns
\* every field the request names (model, physics state, metadata) has the
\* value the request gives, whatever the handle held before the call.
C18_NamedFieldsFromRequestAlone ==
    restored = "returned" =>
        /\ SameRequestAgain
        /\ ModelFromRequest
        /\ StatesFromRequest
        /\ HasMeta(req) => env.ep_meta = ParsedMeta(req)

\* C18 as the code has it: reset_to is idempotent for an identical request;
\* the model and the physics state the request names are set from the request
\* alone; the metadata is set from the request only when the request names a
\* model and the handle has a metadata setter, and is left as it was otherwise.
C18_IdempotentAndOverwrites ==
    /\ [](restored = "returned" =>
            /\ SameRequestAgain
            /\ ModelFromRequest
            /\ StatesFromRequest
            /\ (HasModel(req) /\ env.caps \cap MetaCaps # {}) =>
                  env.ep_meta = ParsedMeta(req))
    /\ [][(~HasModel(req') \/ env.caps \cap MetaCaps = {}) =>
            env'.ep_meta = env.ep_meta]_vars

\* a request naming model, states and metadata, applied to a handle that held
\* other metadata, a setter being there: all three now come from the request
C18_Witness ==
    /\ restored = "returned"
    /\ HasModel(req) /\ HasStates(req) /\ HasMeta(req)
    /\ req.states # ZeroState
    /\ req.ep_meta # None
    /\ ParsedMeta(req) # {}
    /\ "set_ep_meta" \in env.caps
    /\ env.state = req.states
    /\ env.ep_meta = ParsedMeta(req)
    /\ env.model.xml = req.model

ExtendedActionReplay == args.use_actions /\ args.extend_states /\ ~args.use_obs

\* the assert on the lengths has ended the run
LengthCheckFailed == pc = "raised" /\ raised = "AssertionError" /\ Listed

ViewerAbsent == env.viewer = None

BetweenEpisodes == pc \in {"loop", "done"} /\ run.played # <<>>

\* C20: with --render the viewer is created by the script at most once per
\* episode, at a step that finds it absent; it is updated once per processed
\* step and is present at every update; once an episode is over it has been
\* closed once and cleared, so no viewer is open between episodes.  Without
\* --render the viewer is never created, updated or closed.
C20_ViewerPerEpisode ==
    /\ [](/\ (args.render /\ pc \in {"step", "end_episode"}) =>
                /\ log.viewer_inits <= 1
                /\ log.viewer_updates = Processed
                /\ log.viewer_closes = 0
                /\ Processed = 0 => (ViewerAbsent /\ log.viewer_inits = 0)
                /\ Processed > 0 => ~ViewerAbsent
          /\ (args.render /\ BetweenEpisodes) =>
                /\ ViewerAbsent
                /\ log.viewer_closes = 1
                /\ log.viewer_inits <= 1
                /\ log.viewer_updates = run.played[Len(run.played)].steps
          /\ ~args.render =>
                /\ env # NoEnv => ViewerAbsent
                /\ log.viewer_inits = 0
                /\ log.viewer_updates = 0
                /\ log.viewer_closes = 0)
    /\ [][/\ (pc = "step" /\ args.render) =>
                /\ env'.viewer # None
                /\ log'.viewer_updates = log.viewer_updates + 1
                /\ log'.viewer_inits =
                      log.viewer_inits + (IF ViewerAbsent THEN 1 ELSE 0)
          /\ pc # "step" => log'.viewer_updates \in {0, log.viewer_updates}]_vars

\* on screen, a second episode has just ended after MaxLen steps: one viewer
\* created, MaxLen updates, the viewer still to be closed
C20_Witness ==
    /\ args.render
    /\ pc = "end_episode"
    /\ run.played # <<>>
    /\ traj_len = MaxLen
    /\ log.viewer_inits = 1
    /\ log.viewer_updates = MaxLen
    /\ log.viewer_closes = 0
    /\ ~ViewerAbsent

====
